---- MODULE Spec2Model ----
(***************************************************************************)
(* Model of scripts/analyze-beats.py: the band-pass edge computation       *)
(* (butter_bandpass), the onset filter (detect_onsets), the analysis       *)
(* pipeline (analyze_audio) and the command-line wrapper (main).           *)
(*                                                                         *)
(* Units.  The source works on floating-point seconds.  The model keeps    *)
(* every quantity exact:                                                   *)
(*   - a raw onset time is a whole number of samples (frame * hop_length), *)
(*     i.e. the time in seconds multiplied by sr;                          *)
(*   - a rounded onset time (round(t, 3)) is a whole number of             *)
(*     milliseconds;                                                       *)
(*   - min_interval is a whole number of tenths of a millisecond;          *)
(*   - a normalized band edge is a numerator over the denominator          *)
(*     1000 * sr;                                                          *)
(*   - a tempo is a whole number of half beats per minute.                 *)
(***************************************************************************)
EXTENDS Integers, Sequences, FiniteSets

VARIABLES
    sr,             \* sample rate of the signal (all three machines)
    \* ---- detect_onsets, run on its own
    dpc,            \* position inside detect_onsets
    onset_frames,   \* frames returned by librosa.onset.onset_detect
    min_interval,   \* the min_interval argument, in 0.1 ms
    filtered,       \* the list of kept raw times (samples)
    onsets_ret,     \* the returned list (ms)
    \* ---- butter_bandpass, run on its own
    bpc,            \* position inside butter_bandpass
    lowcut,         \* Hz
    highcut,        \* Hz
    low,            \* normalized lower edge, numerator over 1000 * sr
    high,           \* normalized upper edge, numerator over 1000 * sr
    \* ---- main / analyze_audio
    pc,             \* position inside main / analyze_audio
    argv,           \* sys.argv
    y_percussive,   \* the percussive signal: the onset frames of each band
    duration,       \* round(duration, 2), in centiseconds
    bass_hits,      \* ms
    snare_hits,     \* ms
    all_beats,      \* ms
    bpm,
    raised,         \* the stages whose try block took its except branch
    exc,            \* the exception travelling to main's handlers
    result,         \* the dict analyze_audio returns
    stdout,         \* the JSON objects printed to standard output
    exit_status     \* the process exit status

dvars == <<dpc, onset_frames, min_interval, filtered, onsets_ret>>
bvars == <<bpc, lowcut, highcut, low, high>>
avars == <<pc, argv, y_percussive, duration, bass_hits, snare_hits, all_beats,
           bpm, raised, exc, result, stdout, exit_status>>
vars == <<sr, dvars, bvars, avars>>

\* ---------------------------------------------------------------- bounds

\* largest onset frame index of a short onset list
MaxFrame == 5
\* longest short onset list
MaxOnsets == 2
\* largest onset frame index when detect_onsets is run on its own
MaxDetectFrame == 12
\* longest onset list when detect_onsets is run on its own
MaxDetectOnsets == 3

\* sample rates of the input files (librosa.load(sr=None) keeps the native one)
SampleRates == {8000, 8192, 22050}

\* min_interval arguments tried on detect_onsets, in 0.1 ms:
\* the default 0.1, 0.125, the 0.15 analyze_audio passes, and 0.1625
MinIntervals == {1000, 1250, 1500, 1625}

\* --------------------------------------------------------------- helpers

None == "None"

Last(s) == s[Len(s)]

Range(s) == {s[i] : i \in 1..Len(s)}

SetMin(S) == CHOOSE x \in S : \A y \in S : x <= y

\* strictly ascending sequences over 0..top of length at most n
AscendingSeqs(top, n) ==
    {s \in UNION {[1..k -> 0..top] : k \in 0..n} :
        \A i \in 1..(Len(s) - 1) : s[i] < s[i + 1]}

\* n / d rounded to the nearest integer, ties to the even one (n >= 0, d > 0)
RoundHalfEven(n, d) ==
    LET q == n \div d
        r == n % d
    IN IF 2 * r < d THEN q
       ELSE IF 2 * r > d THEN q + 1
       ELSE IF q % 2 = 0 THEN q ELSE q + 1

\* the variables of a machine that is not running
AIdle ==
    /\ pc = "idle" /\ argv = <<>> /\ y_percussive = None /\ duration = None
    /\ bass_hits = None /\ snare_hits = None /\ all_beats = None /\ bpm = None
    /\ raised = {} /\ exc = None /\ result = None /\ stdout = <<>> /\ exit_status = None

BIdle == bpc = "idle" /\ lowcut = 0 /\ highcut = 0 /\ low = None /\ high = None

DIdle ==
    /\ dpc = "idle" /\ onset_frames = <<>> /\ min_interval = 0
    /\ filtered = None /\ onsets_ret = None

\* ------------------------------------------------------- butter_bandpass

\* cut-off frequencies tried on butter_bandpass, in Hz (the band edges
\* analyze_audio uses)
Cutoffs == {20, 150, 400}

\* sample rates tried on butter_bandpass, in Hz
BandRates == {40, 300, 303, 304, 8000, 22050}

Max2(a, b) == IF a >= b THEN a ELSE b

Min2(a, b) == IF a <= b THEN a ELSE b

\* cut / nyq with nyq = 0.5 * sr, as a numerator over 1000 * sr
NormalizedEdge(cut) == 2000 * cut

\* max(0.001, min(edge, 0.999))
ClampEdge(edge, rate) == Max2(1 * rate, Min2(edge, 999 * rate))

\* if low >= high: high = low + 0.01
WidenHigh(lo, hi, rate) == IF lo >= hi THEN lo + 10 * rate ELSE hi

\* the [low, high] butter_bandpass hands to scipy.signal.butter
BandEdges(lo_cut, hi_cut, rate) ==
    LET lo == ClampEdge(NormalizedEdge(lo_cut), rate)
        hi == ClampEdge(NormalizedEdge(hi_cut), rate)
    IN <<lo, WidenHigh(lo, hi, rate)>>

\* scipy.signal.butter accepts a digital band only when 0 < low < high < 1
ButterAccepts(lo, hi, rate) == 0 < lo /\ lo < hi /\ hi < 1000 * rate

\* ---- butter_bandpass as a machine of its own

InitBand ==
    /\ sr \in BandRates
    /\ bpc = "normalize"
    /\ lowcut \in Cutoffs
    /\ highcut \in Cutoffs
    /\ low = None
    /\ high = None
    /\ DIdle
    /\ AIdle

\* lines 39-41
BandNormalize ==
    /\ bpc = "normalize"
    /\ low' = NormalizedEdge(lowcut)
    /\ high' = NormalizedEdge(highcut)
    /\ bpc' = "clamp"
    /\ UNCHANGED <<sr, lowcut, highcut, dvars, avars>>

\* lines 43-44
BandClamp ==
    /\ bpc = "clamp"
    /\ low' = ClampEdge(low, sr)
    /\ high' = ClampEdge(high, sr)
    /\ bpc' = "compare"
    /\ UNCHANGED <<sr, lowcut, highcut, dvars, avars>>

\* lines 45-46
BandWiden ==
    /\ bpc = "compare"
    /\ high' = WidenHigh(low, high, sr)
    /\ bpc' = "design"
    /\ UNCHANGED <<sr, lowcut, highcut, low, dvars, avars>>

\* line 47, butter returns the coefficients
BandDesign ==
    /\ bpc = "design"
    /\ ButterAccepts(low, high, sr)
    /\ bpc' = "returned"
    /\ UNCHANGED <<sr, lowcut, highcut, low, high, dvars, avars>>

\* line 47, butter raises ValueError
BandDesignRaises ==
    /\ bpc = "design"
    /\ ~ButterAccepts(low, high, sr)
    /\ bpc' = "raised"
    /\ UNCHANGED <<sr, lowcut, highcut, low, high, dvars, avars>>

NextBand == BandNormalize \/ BandClamp \/ BandWiden \/ BandDesign \/ BandDesignRaises

SpecBand == InitBand /\ [][NextBand]_vars

\* C9: for every positive lowcut, highcut and sample rate, the normalized
\* band edges butter_bandpass passes to the filter design satisfy
\* low < high, 0.001 <= low and high <= 0.999.
C9_ValidBand ==
    bpc = "design" => low < high /\ 1 * sr <= low /\ high <= 999 * sr

\* --------------------------------------------------------- detect_onsets

\* librosa's default hop_length: frame f starts at sample f * 512
HopLength == 512

\* librosa.frames_to_time(onset_frames, sr=sr), as samples (seconds * sr)
frames_to_time(frames) == [i \in 1..Len(frames) |-> frames[i] * HopLength]

\* t - last >= min_interval, t and last in samples, interval in 0.1 ms
AtLeastInterval(t, last, interval, rate) == (t - last) * 10000 >= interval * rate

\* lines 79-80: the body of the loop
KeepOnset(kept, t, interval, rate) ==
    IF AtLeastInterval(t, Last(kept), interval, rate) THEN Append(kept, t) ELSE kept

\* the loop "for t in onset_times[1:]" over the positions lo..hi, in order:
\* first the lower half of the positions, then the upper half.  The kept list
\* is never empty (line 77 seeds it); testing its length makes TLC compute it
\* before descending, which keeps the evaluation shallow.
RECURSIVE FilterOnsets(_, _, _, _, _, _)
FilterOnsets(onset_times, lo, hi, kept, interval, rate) ==
    IF lo > hi \/ Len(kept) = 0 THEN kept
    ELSE IF lo = hi THEN KeepOnset(kept, onset_times[lo], interval, rate)
    ELSE FilterOnsets(onset_times, (lo + hi) \div 2 + 1, hi,
                      FilterOnsets(onset_times, lo, (lo + hi) \div 2, kept,
                                   interval, rate),
                      interval, rate)

\* round(t, 3) of a raw time of t samples: whole milliseconds
Round3(t, rate) == RoundHalfEven(t * 1000, rate)

RoundAll(kept, rate) == [i \in 1..Len(kept) |-> Round3(kept[i], rate)]

\* variant: every onset is returned, the filter is skipped
detect_onsets_unfiltered(frames, rate, interval) ==
    RoundAll(frames_to_time(frames), rate)

\* detect_onsets from the onset frames librosa found in the signal
detect_onsets(frames, rate, interval) ==
    LET onset_times == frames_to_time(frames)
    IN IF Len(onset_times) = 0 THEN <<>>
       ELSE RoundAll(FilterOnsets(onset_times, 2, Len(onset_times),
                                  <<onset_times[1]>>, interval, rate),
                     rate)

\* ---- detect_onsets as a machine of its own

InitOnsets ==
    /\ sr \in SampleRates
    /\ dpc = "convert"
    /\ onset_frames \in AscendingSeqs(MaxDetectFrame, MaxDetectOnsets)
    /\ min_interval \in MinIntervals
    /\ filtered = None
    /\ onsets_ret = None
    /\ AIdle
    /\ BIdle

\* lines 74-75: no onset, return []
DetectEmpty ==
    /\ dpc = "convert"
    /\ Len(frames_to_time(onset_frames)) = 0
    /\ onsets_ret' = <<>>
    /\ dpc' = "returned"
    /\ UNCHANGED <<sr, onset_frames, min_interval, filtered, bvars, avars>>

\* lines 77-80: the greedy filter over the raw times
DetectFilter ==
    /\ dpc = "convert"
    /\ LET onset_times == frames_to_time(onset_frames)
       IN /\ Len(onset_times) # 0
          /\ filtered' = FilterOnsets(onset_times, 2, Len(onset_times),
                                      <<onset_times[1]>>, min_interval, sr)
    /\ dpc' = "round"
    /\ UNCHANGED <<sr, onset_frames, min_interval, onsets_ret, bvars, avars>>

\* line 82: round the kept times and return
DetectRound ==
    /\ dpc = "round"
    /\ onsets_ret' = RoundAll(filtered, sr)
    /\ dpc' = "returned"
    /\ UNCHANGED <<sr, onset_frames, min_interval, filtered, bvars, avars>>

NextOnsets == DetectEmpty \/ DetectFilter \/ DetectRound

SpecOnsets == InitOnsets /\ [][NextOnsets]_vars

\* ---------------------------------------------------------- analyze_audio

\* min_interval=0.15 of both band stages, in 0.1 ms
BandMinInterval == 1500

\* the 0.1 s of the merge filter, in ms
MergeInterval == 100

\* all_beats[:20]
FallbackWindow == 20

\* len(all_beats) >= 4
FallbackMinBeats == 4

\* the fixed default tempo
DefaultBpm == 120

\* the samples of every input signal, in frames of HopLength samples
SignalFrames == 160

\* len(y) / sr rounded to 2 decimals, in centiseconds
Duration(rate) == RoundHalfEven(SignalFrames * HopLength * 100, rate)

\* the ascending list of the elements of a set: sorted(set(...))
SortedSet(S) ==
    [i \in 1..Cardinality(S) |->
        CHOOSE x \in S : Cardinality({y \in S : y < x}) = i - 1]

\* lines 126-127: the body of the loop
KeepBeat(kept, t) ==
    IF t - Last(kept) >= MergeInterval THEN Append(kept, t) ELSE kept

\* variant: the loop compares each beat with the beat before it
RECURSIVE FilterBeatsAlt(_, _, _, _)
FilterBeatsAlt(beats, lo, hi, kept) ==
    IF lo > hi \/ Len(kept) = 0 THEN kept
    ELSE IF lo = hi
         THEN IF beats[lo] - beats[lo - 1] >= MergeInterval
              THEN Append(kept, beats[lo])
              ELSE kept
    ELSE FilterBeatsAlt(beats, (lo + hi) \div 2 + 1, hi,
                        FilterBeatsAlt(beats, lo, (lo + hi) \div 2, kept))

\* the loop "for t in all_beats[1:]" over the positions lo..hi, in order
\* (halved like FilterOnsets)
RECURSIVE FilterBeats(_, _, _, _)
FilterBeats(beats, lo, hi, kept) ==
    IF lo > hi \/ Len(kept) = 0 THEN kept
    ELSE IF lo = hi THEN KeepBeat(kept, beats[lo])
    ELSE FilterBeats(beats, (lo + hi) \div 2 + 1, hi,
                     FilterBeats(beats, lo, (lo + hi) \div 2, kept))

\* lines 120-128
MergeBeats(bass, snare) ==
    LET beats == SortedSet(Range(bass \o snare))
    IN IF Len(beats) > 1 THEN FilterBeats(beats, 2, Len(beats), <<beats[1]>>)
       ELSE beats

\* np.diff
Diff(s) == [i \in 1..(Len(s) - 1) |-> s[i + 1] - s[i]]

\* the place of entry j in the sorted order (equal entries keep their order)
Rank(s, j) ==
    Cardinality({k \in 1..Len(s) : s[k] < s[j] \/ (s[k] = s[j] /\ k <= j)})

\* a sequence sorted ascending, duplicates kept
SortAsc(s) == [i \in 1..Len(s) |-> s[CHOOSE j \in 1..Len(s) : Rank(s, j) = i]]

\* twice np.median of a non-empty sequence
MedianTwice(s) ==
    LET o == SortAsc(s)
        n == Len(s)
    IN IF n % 2 = 1 THEN 2 * o[(n + 1) \div 2]
       ELSE o[n \div 2] + o[n \div 2 + 1]

\* variant: the two default branches are missing, bpm stays 0
FallbackBpmNoDefault(beats) ==
    IF Len(beats) >= FallbackMinBeats
    THEN LET avg2 == MedianTwice(Diff(SubSeq(beats, 1, Min2(FallbackWindow, Len(beats)))))
         IN IF avg2 > 0 THEN RoundHalfEven(60 * 2000, avg2) ELSE 0
    ELSE 0

\* variant: the intervals of all the beats, not of the first 20
FallbackBpmNoWindow(beats) ==
    IF Len(beats) >= FallbackMinBeats
    THEN LET avg2 == MedianTwice(Diff(beats))
         IN IF avg2 > 0 THEN RoundHalfEven(60 * 2000, avg2) ELSE DefaultBpm
    ELSE DefaultBpm

\* lines 140-145: the tempo from the beat intervals (ms), or the default
FallbackBpm(beats) ==
    IF Len(beats) >= FallbackMinBeats
    THEN LET avg2 == MedianTwice(Diff(SubSeq(beats, 1, Min2(FallbackWindow, Len(beats)))))
         IN IF avg2 > 0 THEN RoundHalfEven(60 * 2000, avg2) ELSE DefaultBpm
    ELSE DefaultBpm

\* what librosa.beat.beat_track hands back as tempo: a scalar or an array of
\* half beats per minute, or a scalar that is not a number
TempoHalves == {0, 1, 239}

TempoReturns ==
    {[kind |-> "scalar", v |-> <<h>>] : h \in TempoHalves}
        \cup {[kind |-> "array", v |-> <<h>>] : h \in TempoHalves}
        \cup {[kind |-> "array", v |-> <<>>], [kind |-> "nan", v |-> <<>>]}

\* lines 134-137 raise: tempo[0] of an empty array, int(round(nan))
NormalizeRaises(tempo) ==
    \/ tempo.kind = "array" /\ Len(tempo.v) = 0
    \/ tempo.kind = "nan"

\* lines 134-137: int(round(float(tempo))) or int(round(float(tempo[0])))
NormalizeTempo(tempo) == RoundHalfEven(tempo.v[1], 2)

\* variant: the band's exception is not absorbed
BandExceptPropagates(next) == [hits |-> <<>>, pc |-> "except", exc |-> "Exception"]

\* lines 108-109 and 116-117: the band's except branch, before stage next
BandExcept(next) == [hits |-> <<>>, pc |-> next, exc |-> None]

\* variant: both counts taken from the merged list
AssembleResultMiscounted(bass, snare, beats, tempo, dur) ==
    [bass_hits |-> bass, snare_hits |-> snare, all_beats |-> beats, bpm |-> tempo,
     duration |-> dur, bass_count |-> Len(beats), snare_count |-> Len(beats)]

\* lines 147-155
AssembleResult(bass, snare, beats, tempo, dur) ==
    [bass_hits |-> bass, snare_hits |-> snare, all_beats |-> beats, bpm |-> tempo,
     duration |-> dur, bass_count |-> Len(bass), snare_count |-> Len(snare)]

\* ------------------------------------------------------------------ main

Prog == "analyze-beats.py"

Paths == {"Music/track.mp3", "missing.wav"}

UsageText == "Usage: python analyze-beats.py <audio_file>"

\* json.dumps({"error": ...}): the message as its pieces
ErrorObject(pieces) == [error |-> pieces]

\* variant: the error is printed and main runs to its end
PrintErrorNoExit(out, pieces) == [stdout |-> Append(out, ErrorObject(pieces)), status |-> 0]

\* print(json.dumps({"error": ...})) followed by sys.exit(1)
PrintErrorAndExit(out, pieces) == [stdout |-> Append(out, ErrorObject(pieces)), status |-> 1]

\* periodic onset frames: count onsets, period frames apart
Pulse(start, period, count) == [i \in 1..count |-> start + (i - 1) * period]

\* latest first frame of a periodic onset list
MaxStart == 2
\* longest period of a periodic onset list, in frames
MaxPeriod == 3
\* the two lengths of a periodic onset list
PulseShort == 12
PulseLong == 48

ShortLists == AscendingSeqs(MaxFrame, MaxOnsets)

PulseLists ==
    {Pulse(s0, p, c) : s0 \in 0..MaxStart, p \in 1..MaxPeriod, c \in {PulseShort, PulseLong}}

\* the percussive signals: the onset frames librosa finds in each band
Signals ==
    {[bass |-> b, snare |-> n] : b \in ShortLists, n \in ShortLists}
        \cup {[bass |-> b, snare |-> n] : b \in PulseLists, n \in PulseLists}

Init ==
    /\ sr = None
    /\ pc = "main"
    /\ argv \in {<<Prog>>} \cup {<<Prog, f>> : f \in Paths}
    /\ y_percussive = None /\ duration = None
    /\ bass_hits = None /\ snare_hits = None /\ all_beats = None /\ bpm = None
    /\ raised = {} /\ exc = None /\ result = None /\ stdout = <<>>
    /\ exit_status = None
    /\ DIdle
    /\ BIdle

\* lines 159-161
MainUsage ==
    /\ pc = "main"
    /\ Len(argv) < 2
    /\ LET e == PrintErrorAndExit(stdout, <<UsageText>>)
       IN /\ stdout' = e.stdout
          /\ exit_status' = e.status
    /\ pc' = "exited"
    /\ UNCHANGED <<sr, argv, y_percussive, duration, bass_hits, snare_hits, all_beats,
                   bpm, raised, exc, result, dvars, bvars>>

\* lines 163-166: call analyze_audio(filepath)
MainCall ==
    /\ pc = "main"
    /\ Len(argv) >= 2
    /\ pc' = "load"
    /\ UNCHANGED <<sr, argv, y_percussive, duration, bass_hits, snare_hits, all_beats,
                   bpm, raised, exc, result, stdout, exit_status, dvars, bvars>>

\* lines 96-97
Load ==
    /\ pc = "load"
    /\ \E rate \in SampleRates :
          /\ sr' = rate
          /\ duration' = Duration(rate)
    /\ pc' = "hpss"
    /\ UNCHANGED <<argv, y_percussive, bass_hits, snare_hits, all_beats,
                   bpm, raised, exc, result, stdout, exit_status, dvars, bvars>>

\* line 96: the file cannot be opened
LoadNotFound ==
    /\ pc = "load"
    /\ exc' = "FileNotFoundError"
    /\ pc' = "except"
    /\ UNCHANGED <<sr, argv, y_percussive, duration, bass_hits, snare_hits, all_beats,
                   bpm, raised, result, stdout, exit_status, dvars, bvars>>

\* line 96: the file cannot be decoded
LoadRaises ==
    /\ pc = "load"
    /\ exc' = "Exception"
    /\ pc' = "except"
    /\ UNCHANGED <<sr, argv, y_percussive, duration, bass_hits, snare_hits, all_beats,
                   bpm, raised, result, stdout, exit_status, dvars, bvars>>

\* line 101
Hpss ==
    /\ pc = "hpss"
    /\ y_percussive' \in Signals
    /\ pc' = "bass"
    /\ UNCHANGED <<sr, argv, duration, bass_hits, snare_hits, all_beats,
                   bpm, raised, exc, result, stdout, exit_status, dvars, bvars>>

\* line 101 raises
HpssRaises ==
    /\ pc = "hpss"
    /\ exc' = "Exception"
    /\ pc' = "except"
    /\ UNCHANGED <<sr, argv, y_percussive, duration, bass_hits, snare_hits, all_beats,
                   bpm, raised, result, stdout, exit_status, dvars, bvars>>

\* lines 105-107
BassBand ==
    /\ pc = "bass"
    /\ LET edges == BandEdges(20, 150, sr)
       IN ButterAccepts(edges[1], edges[2], sr)
    /\ bass_hits' = detect_onsets(y_percussive.bass, sr, BandMinInterval)
    /\ pc' = "snare"
    /\ UNCHANGED <<sr, argv, y_percussive, duration, snare_hits, all_beats,
                   bpm, raised, exc, result, stdout, exit_status, dvars, bvars>>

\* lines 105-109: something in the try block raises
BassBandRaises ==
    /\ pc = "bass"
    /\ LET h == BandExcept("snare")
       IN /\ bass_hits' = h.hits
          /\ pc' = h.pc
          /\ exc' = h.exc
    /\ raised' = raised \cup {"bass"}
    /\ UNCHANGED <<sr, argv, y_percussive, duration, snare_hits, all_beats,
                   bpm, result, stdout, exit_status, dvars, bvars>>

\* lines 113-115
SnareBand ==
    /\ pc = "snare"
    /\ LET edges == BandEdges(150, 400, sr)
       IN ButterAccepts(edges[1], edges[2], sr)
    /\ snare_hits' = detect_onsets(y_percussive.snare, sr, BandMinInterval)
    /\ pc' = "merge"
    /\ UNCHANGED <<sr, argv, y_percussive, duration, bass_hits, all_beats,
                   bpm, raised, exc, result, stdout, exit_status, dvars, bvars>>

\* lines 113-117: something in the try block raises
SnareBandRaises ==
    /\ pc = "snare"
    /\ LET h == BandExcept("merge")
       IN /\ snare_hits' = h.hits
          /\ pc' = h.pc
          /\ exc' = h.exc
    /\ raised' = raised \cup {"snare"}
    /\ UNCHANGED <<sr, argv, y_percussive, duration, bass_hits, all_beats,
                   bpm, result, stdout, exit_status, dvars, bvars>>

\* lines 120-128
Merge ==
    /\ pc = "merge"
    /\ all_beats' = MergeBeats(bass_hits, snare_hits)
    /\ pc' = "tempo"
    /\ UNCHANGED <<sr, argv, y_percussive, duration, bass_hits, snare_hits,
                   bpm, raised, exc, result, stdout, exit_status, dvars, bvars>>

\* lines 131-137: beat_track returns and its tempo is normalized
Tempo ==
    /\ pc = "tempo"
    /\ \E tempo \in TempoReturns :
          /\ ~NormalizeRaises(tempo)
          /\ bpm' = NormalizeTempo(tempo)
    /\ pc' = "return"
    /\ UNCHANGED <<sr, argv, y_percussive, duration, bass_hits, snare_hits, all_beats,
                   raised, exc, result, stdout, exit_status, dvars, bvars>>

\* lines 131-145: beat_track or the normalization raises
TempoRaises ==
    /\ pc = "tempo"
    /\ bpm' = FallbackBpm(all_beats)
    /\ raised' = raised \cup {"tempo"}
    /\ pc' = "return"
    /\ UNCHANGED <<sr, argv, y_percussive, duration, bass_hits, snare_hits, all_beats,
                   exc, result, stdout, exit_status, dvars, bvars>>

\* lines 147-155
Return ==
    /\ pc = "return"
    /\ result' = AssembleResult(bass_hits, snare_hits, all_beats, bpm, duration)
    /\ pc' = "print"
    /\ UNCHANGED <<sr, argv, y_percussive, duration, bass_hits, snare_hits, all_beats,
                   bpm, raised, exc, stdout, exit_status, dvars, bvars>>

\* line 167, then the end of main
MainPrint ==
    /\ pc = "print"
    /\ stdout' = Append(stdout, result)
    /\ exit_status' = 0
    /\ pc' = "exited"
    /\ UNCHANGED <<sr, argv, y_percussive, duration, bass_hits, snare_hits, all_beats,
                   bpm, raised, exc, result, dvars, bvars>>

\* lines 168-170
MainFileNotFound ==
    /\ pc = "except"
    /\ exc = "FileNotFoundError"
    /\ LET e == PrintErrorAndExit(stdout, <<"File not found: ", argv[2]>>)
       IN /\ stdout' = e.stdout
          /\ exit_status' = e.status
    /\ pc' = "exited"
    /\ UNCHANGED <<sr, argv, y_percussive, duration, bass_hits, snare_hits, all_beats,
                   bpm, raised, exc, result, dvars, bvars>>

\* lines 171-173
MainException ==
    /\ pc = "except"
    /\ exc # "FileNotFoundError"
    /\ LET e == PrintErrorAndExit(stdout, <<exc>>)
       IN /\ stdout' = e.stdout
          /\ exit_status' = e.status
    /\ pc' = "exited"
    /\ UNCHANGED <<sr, argv, y_percussive, duration, bass_hits, snare_hits, all_beats,
                   bpm, raised, exc, result, dvars, bvars>>

Next ==
    \/ MainUsage \/ MainCall
    \/ Load \/ LoadNotFound \/ LoadRaises
    \/ Hpss \/ HpssRaises
    \/ BassBand \/ BassBandRaises
    \/ SnareBand \/ SnareBandRaises
    \/ Merge
    \/ Tempo \/ TempoRaises
    \/ Return
    \/ MainPrint \/ MainFileNotFound \/ MainException

Spec == Init /\ [][Next]_vars

\* ---------------------------------------------------------------- claims

\* C1: the list detect_onsets returns (the kept times after rounding to 3
\* decimals) is strictly ascending and every consecutive pair of returned
\* values differs by at least min_interval, for every onset sequence and
\* every min_interval > 0.
C1_ReturnedSpaced ==
    dpc = "returned" =>
        \A i \in 1..(Len(onsets_ret) - 1) :
            /\ onsets_ret[i] < onsets_ret[i + 1]
            /\ (onsets_ret[i + 1] - onsets_ret[i]) * 10 >= min_interval

\* the spacing of a list of rounded onset times, in ms
Spaced(s, gap) == \A i \in 1..(Len(s) - 1) : s[i + 1] - s[i] >= gap

\* K is the greedy 0.1 s selection from the set U: it starts at the smallest
\* element, every next element is the smallest one at least 0.1 s after the
\* one before, and nothing is left at least 0.1 s after its last element
IsGreedyMerge(K, U) ==
    IF U = {} THEN K = <<>>
    ELSE /\ Len(K) >= 1
         /\ K[1] = SetMin(U)
         /\ \A i \in 1..(Len(K) - 1) :
               LET later == {x \in U : x - K[i] >= 100}
               IN later # {} /\ K[i + 1] = SetMin(later)
         /\ {x \in U : x - Last(K) >= 100} = {}

\* C2: all_beats returned by analyze_audio is the set union of bass_hits and
\* snare_hits, sorted ascending and greedily thinned to elements at least
\* 0.1 s after the last kept one; every element of all_beats is an element of
\* bass_hits or snare_hits, and consecutive elements are at least 0.1 s apart.
C2_MergeIsGreedyUnion ==
    pc = "print" =>
        LET U == Range(result.bass_hits) \cup Range(result.snare_hits)
        IN /\ IsGreedyMerge(result.all_beats, U)
           /\ Range(result.all_beats) \subseteq U
           /\ Spaced(result.all_beats, 100)

C2_Witness ==
    /\ pc = "print"
    /\ Len(result.all_beats) >= 3
    /\ Len(result.all_beats) < Cardinality(Range(result.bass_hits \o result.snare_hits))
    /\ Range(result.all_beats) \cap Range(result.bass_hits) # {}
    /\ Range(result.all_beats) \cap Range(result.snare_hits) # {}
    /\ Range(result.bass_hits) \cap Range(result.snare_hits) # {}

\* C3: in every result returned by analyze_audio, whichever branch produced
\* it, bpm is an integer strictly greater than 0.
C3_BpmPositive == pc = "print" => result.bpm \in Nat /\ result.bpm > 0

C5_BandFailureAbsorbed ==
    /\ (pc = "except" \/ exc # None) => raised = {}
    /\ ("bass" \in raised => bass_hits = <<>>)
    /\ ("snare" \in raised => snare_hits = <<>>)
    /\ (pc \in {"snare", "merge", "tempo", "return", "print"} /\ "bass" \notin raised)
           => bass_hits = detect_onsets(y_percussive.bass, sr, BandMinInterval)
    /\ (pc \in {"merge", "tempo", "return", "print"} /\ "snare" \notin raised)
           => snare_hits = detect_onsets(y_percussive.snare, sr, BandMinInterval)
    /\ raised \cap {"bass", "snare"} # {} =>
          pc \in {"snare", "merge", "tempo", "return", "print", "exited"}
    /\ (raised \cap {"bass", "snare"} # {} /\ pc = "exited")
           => exit_status = 0 /\ stdout = <<result>>

C5_Witness ==
    /\ pc = "exited"
    /\ "bass" \in raised
    /\ "snare" \notin raised
    /\ Len(y_percussive.bass) >= 2
    /\ Len(snare_hits) >= 2
    /\ all_beats = snare_hits

\* C6: every invocation of main ends with exactly one object on standard
\* output: exit status 0 with the result (no "error" key), only when
\* analyze_audio returned; or exit status 1 with an object whose key is
\* "error", for a missing argument, a file-not-found error (the message
\* contains the given path) and any other exception of analyze_audio.
C6_OneOutcome ==
    /\ pc # "exited" => stdout = <<>>
    /\ pc = "exited" =>
          /\ Len(stdout) = 1
          /\ \/ /\ exit_status = 0
                /\ "error" \notin DOMAIN stdout[1]
                /\ stdout[1] = result
                /\ Len(argv) >= 2
                /\ exc = None
             \/ /\ exit_status = 1
                /\ DOMAIN stdout[1] = {"error"}
                /\ Len(argv) < 2 \/ exc # None
          /\ Len(argv) < 2 => stdout[1] = ErrorObject(<<UsageText>>)
          /\ exc = "FileNotFoundError" => argv[2] \in Range(stdout[1].error)

C6_Witness ==
    /\ pc = "exited"
    /\ exc = "FileNotFoundError"
    /\ exit_status = 1
    /\ stdout = <<ErrorObject(<<"File not found: ", "missing.wav">>)>>

\* C7: in every result returned by analyze_audio, also when band stages
\* failed, bass_count is the length of bass_hits and snare_count is the
\* length of snare_hits.
C7_CountsMatch ==
    pc = "print" =>
        /\ result.bass_count = Len(result.bass_hits)
        /\ result.snare_count = Len(result.snare_hits)

C7_Witness ==
    /\ pc = "print"
    /\ "bass" \in raised
    /\ result.bass_count = 0
    /\ result.snare_count >= 2
    /\ Len(y_percussive.bass) >= 2

\* the k-th smallest entry of a sequence
Kth(s, k) ==
    CHOOSE v \in Range(s) :
        /\ Cardinality({i \in 1..Len(s) : s[i] < v}) < k
        /\ Cardinality({i \in 1..Len(s) : s[i] <= v}) >= k

\* b is 60 / (m2 / 2) seconds-per-beat rounded to the nearest integer, a tie
\* going to the even one (m2: twice the median interval, in ms)
IsRoundedTempo(b, m2) ==
    LET err == IF b * m2 >= 120000 THEN b * m2 - 120000 ELSE 120000 - b * m2
    IN /\ 2 * err <= m2
       /\ 2 * err = m2 => b % 2 = 0

\* C8: when the tempo estimation or the normalization of its value raises,
\* analyze_audio does not abort: bpm is round(60 / m), m the median of the
\* consecutive differences of the first min(20, len) entries of all_beats,
\* provided all_beats has at least 4 entries and m > 0; otherwise it is 120.
C8_FallbackTempo ==
    ("tempo" \in raised) =>
        /\ pc \in {"return", "print", "exited"}
        /\ exc = None
        /\ LET n == IF Len(all_beats) <= 20 THEN Len(all_beats) ELSE 20
               gaps == [i \in 1..(n - 1) |-> all_beats[i + 1] - all_beats[i]]
               k == n - 1
               m2 == IF k % 2 = 1 THEN 2 * Kth(gaps, (k + 1) \div 2)
                     ELSE Kth(gaps, k \div 2) + Kth(gaps, k \div 2 + 1)
           IN IF Len(all_beats) >= 4 /\ m2 > 0
              THEN IsRoundedTempo(bpm, m2)
              ELSE bpm = 120

C8_Witness ==
    /\ pc = "print"
    /\ "tempo" \in raised
    /\ Len(all_beats) > 20
    /\ \E i \in 21..(Len(all_beats) - 1) :
          all_beats[i + 1] - all_beats[i] # all_beats[2] - all_beats[1]
    /\ bpm # 120

\* C10: if one band's list is empty and the other was produced by
\* detect_onsets with min_interval 0.15, all_beats is identical to the other
\* band's list; all_beats is empty exactly when both lists are empty, and
\* otherwise its first element is the smallest onset of the two lists.
C10_MergeKeepsSingleBand ==
    pc \in {"tempo", "return", "print"} =>
        /\ snare_hits = <<>> => all_beats = bass_hits
        /\ bass_hits = <<>> => all_beats = snare_hits
        /\ all_beats = <<>> <=> (bass_hits = <<>> /\ snare_hits = <<>>)
        /\ all_beats # <<>> =>
              all_beats[1] = SetMin(Range(bass_hits) \cup Range(snare_hits))

C10_Witness ==
    /\ pc = "tempo"
    /\ snare_hits = <<>>
    /\ Len(y_percussive.snare) >= 2
    /\ Len(bass_hits) >= 3
    /\ \E i \in 1..(Len(bass_hits) - 1) : bass_hits[i + 1] - bass_hits[i] < 163
    /\ all_beats = bass_hits

====
